---- MODULE Spec2Model ----
(***************************************************************************)
(* Model of pscbook.py: the run controller (main), one booking attempt     *)
(* (book_court), the two step helpers (click_button_by_xpath and           *)
(* click_time_selection) and the remote surface they drive.  The surface   *)
(* is an uncontrolled collaborator: every wait, attribute read and click   *)
(* may succeed or fail with one of the driver's exceptions.                *)
(***************************************************************************)
EXTENDS Integers, Sequences, FiniteSets, TLC

VARIABLES
  mainpc,      \* position in main, or the harness a specification runs
  attempt,     \* iterations of main's for loop started so far
  covered,     \* main's local `covered`
  callNo,      \* book_court calls made in the current loop iteration
  totalCalls,  \* book_court calls made in the run
  firstOk,     \* result of the first book_court call of the iteration
  outcomes,    \* the 'Booking result' records, one per finished iteration
  loggedIn,    \* login_to_coursite has returned
  quitCount,   \* calls of driver.quit
  mainExc,     \* exception leaving main ("none" when there is none)
  bc,          \* position in book_court
  bcRet,       \* return value of book_court
  failStage,   \* position at which book_court gave up ("none" otherwise)
  fn,          \* helper being executed: "none", "cb" or "ts"
  sub,         \* position in the helper
  iter,        \* iteration of the helper's for loop (1-based)
  ret,         \* return value of the helper
  exc,         \* exception in flight
  surf,        \* class attribute of the slot element on the remote surface
  cls,         \* class attribute read by the call since its last click
  tsFirst,     \* class attribute first read by the current call
  tsClicks,    \* clicks dispatched by the current click_time_selection call
  r1, r2,      \* time_selection_1_result, time_selection_2_result
  unavail,     \* slot steps whose call returned through the 'red' branch
  nsec,        \* len(sections)
  mismatch,    \* a 'Wrong div active' check failed in this call
  clicked,     \* steps of this book_court call whose click was dispatched
  lowExc,      \* exception that left a helper in this book_court call
  gateCall,    \* harness: calls of click_time_selection made so far
  gateSel,     \* harness: the first call first read an AlreadySelected class
  gateClicks,  \* harness: clicks dispatched over all calls
  today,       \* datetime.datetime.today() as <<leap, month, day>>
  day_number   \* book_court's local day_number, a sequence of characters

mainVars == <<mainpc, attempt, covered, callNo, totalCalls, firstOk, outcomes,
              loggedIn, quitCount, mainExc>>
bcVars   == <<bc, bcRet, failStage, r1, r2, unavail, nsec, mismatch, lowExc>>
fnVars   == <<fn, sub, iter, ret, exc>>
tsVars   == <<surf, cls, tsFirst, tsClicks>>
gateVars == <<gateCall, gateSel, gateClicks>>
dayVars  == <<today, day_number>>
vars == <<mainVars, bcVars, fnVars, tsVars, clicked, gateVars, dayVars>>

(***************************************************************************)
(* Bounds of the model and constants of the program.                       *)
(***************************************************************************)
MaxSections == 3      \* the surface returns 0..MaxSections section elements
GateCalls == 2        \* consecutive calls made by the slot harness

ButtonTries == 2      \* range(2) in click_button_by_xpath
SlotTries == 2        \* range(2) in click_time_selection
Attempts_OneMore == 3 + 1      \* mutant: range(4)
Attempts == 3         \* range(3) in main
LeadDays == 7         \* datetime.timedelta(7)

\* Class attributes the surface may show, as the token lists split(' ') gives.
ClassValues == { <<"ui">>, <<"ui", "red">>, <<"ui", "primary">>,
                 <<"red", "primary">>, <<"ui", "btn-primary">> }
NoClass == << >>

Split(c) == { c[i] : i \in DOMAIN c }

\* 'primary' in s, for the tokens of the vocabulary (substring test).
TokenContainsPrimary(t) == t \in {"primary", "btn-primary"}

\* Python values are written as strings: "None", "True", "False"; "unset" is
\* a local that has not been assigned.
Truthy(v) == v = "True"


\* Mutant: only the first token is compared (class.startswith('red')).
IsUnavailable_FirstToken(c) == Len(c) > 0 /\ c[1] = "red"

\* 'red' in class.split(' ')   (click_time_selection, first test)
IsUnavailable(c) == "red" \in Split(c)

\* Mutant: the whole attribute is compared (class == 'primary').
IsSelectedToken_WholeString(c) == c = <<"primary">>

\* 'primary' in class.split(' ')   (click_time_selection, second test)
IsSelectedToken(c) == "primary" \in Split(c)

\* Mutant: the `not` of the verification is lost.
HasPrimarySubstring_Negated(c) == ~\E i \in DOMAIN c : TokenContainsPrimary(c[i])

\* 'primary' in class   (the verification after the click: a substring test)
HasPrimarySubstring(c) == \E i \in DOMAIN c : TokenContainsPrimary(c[i])

\* SlotState of section 3 of the specification, from the two token tests.
Classify(c) ==
  IF IsUnavailable(c) THEN "Unavailable"
  ELSE IF IsSelectedToken(c) THEN "AlreadySelected"
  ELSE "Selectable"

(***************************************************************************)
(* click_button_by_xpath.  Its except clause names the two exceptions it   *)
(* absorbs; anything else leaves the function.  Both the break after a     *)
(* click and the end of the for loop fall off the end of the function.     *)
(***************************************************************************)
CbCaught(e) == e \in {"Stale", "Intercepted"}

CbReturnAfterBreak == "None"
CbReturnAfterLoop == "None"

\* An exception e raised in the try body of iteration `iter`.
CbFault(e) ==
  IF CbCaught(e)
  THEN IF iter < ButtonTries
       THEN /\ iter' = iter + 1
            /\ sub' = "wait"
            /\ UNCHANGED <<fn, ret, exc>>
       ELSE /\ sub' = "ret"
            /\ ret' = CbReturnAfterLoop
            /\ UNCHANGED <<fn, iter, exc>>
  ELSE /\ sub' = "raise"
       /\ exc' = e
       /\ UNCHANGED <<fn, iter, ret>>

\* WebDriverWait(driver, 10).until(presence_of_element_located(...))
CbWait ==
  /\ fn = "cb" /\ sub = "wait"
  /\ \/ /\ sub' = "read"
        /\ UNCHANGED <<fn, iter, ret, exc>>
     \/ CbFault("Timeout")
  /\ UNCHANGED <<mainVars, bcVars, tsVars, clicked, gateVars, dayVars>>

\* element.get_attribute(INNER_HTML_ATTRIBUTE), for the log line
CbRead ==
  /\ fn = "cb" /\ sub = "read"
  /\ \/ /\ sub' = "click"
        /\ UNCHANGED <<fn, iter, ret, exc>>
     \/ CbFault("Stale")
  /\ UNCHANGED <<mainVars, bcVars, tsVars, clicked, gateVars, dayVars>>

\* element.click(); time.sleep(5); break
CbClick ==
  /\ fn = "cb" /\ sub = "click"
  /\ \/ /\ clicked' = clicked \cup {bc}
        /\ sub' = "ret"
        /\ ret' = CbReturnAfterBreak
        /\ UNCHANGED <<fn, iter, exc>>
     \/ /\ \E e \in {"Stale", "Intercepted", "NotInteractable"} : CbFault(e)
        /\ UNCHANGED clicked
  /\ UNCHANGED <<mainVars, bcVars, tsVars, gateVars, dayVars>>

(***************************************************************************)
(* click_time_selection.                                                   *)
(***************************************************************************)
TsCaught(e) == e = "Stale"

\* Mutant: a caught exception retries without counting the iteration
\* (while True in place of for _ in range(2)).
TsFault_Forever(e) ==
  IF TsCaught(e)
  THEN /\ sub' = "wait"
       /\ UNCHANGED <<fn, iter, ret, exc>>
  ELSE /\ sub' = "raise"
       /\ exc' = e
       /\ UNCHANGED <<fn, iter, ret>>

\* An exception e raised in the try body of iteration `iter`; the function
\* ends with `return False` when the loop runs out.
TsFault(e) ==
  IF TsCaught(e)
  THEN IF iter < SlotTries
       THEN /\ iter' = iter + 1
            /\ sub' = "wait"
            /\ UNCHANGED <<fn, ret, exc>>
       ELSE /\ sub' = "ret"
            /\ ret' = "False"
            /\ UNCHANGED <<fn, iter, exc>>
  ELSE /\ sub' = "raise"
       /\ exc' = e
       /\ UNCHANGED <<fn, iter, ret>>

\* the first WebDriverWait of the iteration
TsWait ==
  /\ fn = "ts" /\ sub = "wait"
  /\ \/ /\ sub' = "read"
        /\ UNCHANGED <<fn, iter, ret, exc>>
     \/ TsFault("Timeout")
  /\ UNCHANGED <<mainVars, bcVars, tsVars, clicked, gateVars, dayVars>>

\* get_attribute('class') and the two tests on its tokens
TsRead ==
  /\ fn = "ts" /\ sub = "read"
  /\ \/ /\ cls' = surf
        /\ tsFirst' = IF tsFirst = NoClass THEN surf ELSE tsFirst
        /\ IF IsUnavailable(surf)
           THEN /\ sub' = "ret" /\ ret' = "False"
                /\ unavail' = unavail \cup {bc}
           ELSE IF IsSelectedToken(surf)
           THEN /\ sub' = "ret" /\ ret' = "True"
                /\ UNCHANGED unavail
           ELSE /\ sub' = "click"
                /\ UNCHANGED <<ret, unavail>>
        /\ UNCHANGED <<fn, iter, exc, surf, tsClicks>>
     \/ /\ TsFault("Stale")
        /\ UNCHANGED <<tsVars, unavail>>
  /\ UNCHANGED <<mainVars, bc, bcRet, failStage, r1, r2, nsec, mismatch,
                 lowExc, clicked, gateVars, dayVars>>

\* get_attribute(INNER_HTML_ATTRIBUTE) for the log line, click(), sleep(5).
\* What the click does to the element's class is the surface's choice.
TsClick ==
  /\ fn = "ts" /\ sub = "click"
  /\ \/ /\ clicked' = clicked \cup {bc}
        /\ tsClicks' = tsClicks + 1
        /\ gateClicks' = IF mainpc = "gate" THEN gateClicks + 1 ELSE gateClicks
        /\ surf' \in ClassValues
        /\ cls' = NoClass
        /\ sub' = "wait2"
        /\ UNCHANGED <<fn, iter, ret, exc, tsFirst>>
     \/ /\ \E e \in {"Stale", "Intercepted", "NotInteractable"} : TsFault(e)
        /\ UNCHANGED <<tsVars, clicked, gateClicks>>
  /\ UNCHANGED <<mainVars, bcVars, gateCall, gateSel, dayVars>>

\* the second WebDriverWait, before the verification read
TsWait2 ==
  /\ fn = "ts" /\ sub = "wait2"
  /\ \/ /\ sub' = "read2"
        /\ UNCHANGED <<fn, iter, ret, exc>>
     \/ TsFault("Timeout")
  /\ UNCHANGED <<mainVars, bcVars, tsVars, clicked, gateVars, dayVars>>

\* the verification: 'primary' not in get_attribute('class')
TsRead2 ==
  /\ fn = "ts" /\ sub = "read2"
  /\ \/ /\ cls' = surf
        /\ sub' = "ret"
        /\ ret' = IF HasPrimarySubstring(surf) THEN "True" ELSE "False"
        /\ UNCHANGED <<fn, iter, exc, surf, tsFirst, tsClicks>>
     \/ /\ TsFault("Stale")
        /\ UNCHANGED tsVars
  /\ UNCHANGED <<mainVars, bcVars, clicked, gateVars, dayVars>>


(***************************************************************************)
(* The date arithmetic of book_court: today + timedelta(7), and the        *)
(* day-of-month string that goes into the day button's locator.            *)
(***************************************************************************)
DaysIn(leap, m) ==
  IF m = 2 THEN (IF leap THEN 29 ELSE 28)
  ELSE IF m \in {4, 6, 9, 11} THEN 30 ELSE 31

Dates == { d \in BOOLEAN \X (1..12) \X (1..31) : d[3] <= DaysIn(d[1], d[2]) }

\* (today + datetime.timedelta(7)).day
BookingDay(t) ==
  LET n == DaysIn(t[1], t[2])
  IN  IF t[3] + LeadDays <= n THEN t[3] + LeadDays ELSE t[3] + LeadDays - n

DigitChar(k) == <<"0", "1", "2", "3", "4", "5", "6", "7", "8", "9">>[k + 1]

\* str(n) for n >= 0
RECURSIVE Str(_)
Str(n) == IF n < 10 THEN <<DigitChar(n)>>
          ELSE Str(n \div 10) \o <<DigitChar(n % 10)>>

\* Mutant: > in place of >=.
DayNumber_Strict(day) == IF day > 10 THEN Str(day) ELSE <<"0">> \o Str(day)

\* str(day) if day >= 10 else f'0{day}'
DayNumber(day) == IF day >= 10 THEN Str(day) ELSE <<"0">> \o Str(day)

(***************************************************************************)
(* book_court.                                                             *)
(***************************************************************************)
CbSteps == {"day", "type", "next1", "next2", "credits", "book"}
TsSteps == {"slot1", "slot2"}

\* Mutant: TimeoutException is missing from the except clause.
BcCaught_NoTimeout(e) == e = "NotInteractable"

\* The except clause of both try statements of book_court.
BcCaught(e) == e \in {"Timeout", "NotInteractable"}

\* Mutant: the second candidate is skipped once the first returned True.
AfterSlot1_ShortCircuit(r) == IF Truthy(r) THEN "slotcheck" ELSE "slot2"

\* The statement that follows the first click_time_selection call.
AfterSlot1(r) == "slot2"

\* Mutant: the parentheses are lost, `not a or b` with `and` for `or`.
BothFailed_Precedence(a, b) == (~Truthy(a)) /\ Truthy(b)

\* not (time_selection_1_result or time_selection_2_result)
BothFailed(a, b) == ~(Truthy(a) \/ Truthy(b))

\* The statement that follows the statement at s when s completes normally.
NextStep(s, r) ==
  CASE s = "day"     -> "type"
    [] s = "type"    -> "slot1"
    [] s = "slot1"   -> AfterSlot1(r)
    [] s = "slot2"   -> "slotcheck"
    [] s = "find"    -> "chk0"
    [] s = "chk0"    -> "next1"
    [] s = "next1"   -> "chk1"
    [] s = "chk1"    -> "next2"
    [] s = "next2"   -> "chk2"
    [] s = "chk2"    -> "credits"
    [] s = "credits" -> "active"
    [] s = "active"  -> "book"
    [] s = "book"    -> "ret"

\* Index into `sections` used by the check at s.
ChkIndex(s) == CASE s = "chk0" -> 0 [] s = "chk1" -> 1 [] s = "chk2" -> 2

fnIdle == /\ fn' = "none" /\ sub' = "idle" /\ iter' = 0
          /\ ret' = "unset" /\ exc' = "none"

tsIdle == /\ surf' = NoClass /\ cls' = NoClass /\ tsFirst' = NoClass
          /\ tsClicks' = 0

\* The locals of a fresh book_court call.
bcEnter ==
  /\ bc' = "get" /\ bcRet' = "unset" /\ failStage' = "none"
  /\ r1' = "unset" /\ r2' = "unset" /\ unavail' = {} /\ nsec' = 0
  /\ mismatch' = FALSE /\ lowExc' = "none" /\ clicked' = {}
  /\ day_number' = << >>

\* The locals of book_court are gone once main has taken its result.
bcLeave ==
  /\ bc' = "none" /\ bcRet' = "unset" /\ failStage' = "none"
  /\ r1' = "unset" /\ r2' = "unset" /\ unavail' = {} /\ nsec' = 0
  /\ mismatch' = FALSE /\ lowExc' = "none" /\ clicked' = {}
  /\ day_number' = << >>

\* An exception e reaching book_court's own frame at statement `bc`.
BcFault(e) ==
  /\ failStage' = bc
  /\ IF BcCaught(e)
     THEN /\ bc' = "ret" /\ bcRet' = "False" /\ exc' = "none"
     ELSE /\ bc' = "raise" /\ exc' = e /\ UNCHANGED bcRet

\* driver.get(BOOKING_SITE) and the computation of day_number; the get is
\* outside both try statements.
BcGet ==
  /\ mainpc = "call" /\ bc = "get"
  /\ \/ /\ bc' = "day"
        /\ day_number' = DayNumber(BookingDay(today))
        /\ UNCHANGED <<bcRet, failStage, exc>>
     \/ /\ bc' = "raise" /\ exc' = "WebDriver" /\ failStage' = "get"
        /\ UNCHANGED <<bcRet, day_number>>
  /\ UNCHANGED <<mainVars, r1, r2, unavail, nsec, mismatch, lowExc, fn, sub,
                 iter, ret, tsVars, clicked, gateVars, today>>

\* Entering click_button_by_xpath or click_time_selection for statement bc.
BcCall ==
  /\ mainpc = "call" /\ fn = "none" /\ bc \in CbSteps \cup TsSteps
  /\ fn' = IF bc \in TsSteps THEN "ts" ELSE "cb"
  /\ sub' = "wait" /\ iter' = 1 /\ ret' = "unset" /\ exc' = "none"
  /\ IF bc \in TsSteps
     THEN /\ surf' \in ClassValues
          /\ cls' = NoClass /\ tsFirst' = NoClass /\ tsClicks' = 0
     ELSE UNCHANGED tsVars
  /\ UNCHANGED <<mainVars, bcVars, clicked, gateVars, dayVars>>

\* Mutant: the final return statement is missing.
ReturnAtEnd_Missing == "None"

\* return True, the last statement of book_court
ReturnAtEnd == "True"

\* The helper returned: its value is assigned and the next statement runs.
BcReturn ==
  /\ mainpc = "call" /\ fn \in {"cb", "ts"} /\ sub = "ret"
  /\ r1' = IF bc = "slot1" THEN ret ELSE r1
  /\ r2' = IF bc = "slot2" THEN ret ELSE r2
  /\ bc' = NextStep(bc, ret)
  /\ bcRet' = IF bc = "book" THEN ReturnAtEnd ELSE bcRet
  /\ fnIdle /\ tsIdle
  /\ UNCHANGED <<mainVars, failStage, unavail, nsec, mismatch, lowExc,
                 clicked, gateVars, dayVars>>

\* The helper raised: the exception reaches book_court's try statement.
BcExcept ==
  /\ mainpc = "call" /\ fn \in {"cb", "ts"} /\ sub = "raise"
  /\ lowExc' = exc
  /\ BcFault(exc)
  /\ fn' = "none" /\ sub' = "idle" /\ iter' = 0 /\ ret' = "unset"
  /\ tsIdle
  /\ UNCHANGED <<mainVars, r1, r2, unavail, nsec, mismatch, clicked,
                 gateVars, dayVars>>

\* if not (time_selection_1_result or time_selection_2_result): return False
BcSlotCheck ==
  /\ mainpc = "call" /\ bc = "slotcheck"
  /\ IF BothFailed(r1, r2)
     THEN /\ bc' = "ret" /\ bcRet' = "False" /\ failStage' = "slotcheck"
     ELSE /\ bc' = "find" /\ UNCHANGED <<bcRet, failStage>>
  /\ UNCHANGED <<mainVars, r1, r2, unavail, nsec, mismatch, lowExc, fnVars,
                 tsVars, clicked, gateVars, dayVars>>

\* sections = driver.find_elements(By.XPATH, SECTIONS_XPATH)
BcFind ==
  /\ mainpc = "call" /\ bc = "find"
  /\ nsec' \in 0..MaxSections
  /\ bc' = NextStep(bc, "None")
  /\ UNCHANGED <<mainVars, bcRet, failStage, r1, r2, unavail, mismatch,
                 lowExc, fnVars, tsVars, clicked, gateVars, dayVars>>

\* Mutant: a failed check ends the attempt.
AfterCheck_Hard(s, found) == IF found THEN NextStep(s, "None") ELSE "ret"

\* The statement that follows the check at s: the if body only logs.
AfterCheck(s, found) == NextStep(s, "None")

\* if not contains_element(sections[i], CONTENT_ACTIVE_XPATH): logger.error
BcChk ==
  /\ mainpc = "call" /\ bc \in {"chk0", "chk1", "chk2"}
  /\ IF ChkIndex(bc) >= nsec
     THEN /\ BcFault("IndexError")
          /\ UNCHANGED mismatch
     ELSE \/ /\ \E found \in BOOLEAN :
                  /\ bc' = AfterCheck(bc, found)
                  /\ mismatch' = (mismatch \/ ~found)
             /\ UNCHANGED <<bcRet, failStage, exc>>
          \/ /\ BcFault("Stale")
             /\ UNCHANGED mismatch
  /\ UNCHANGED <<mainVars, r1, r2, unavail, nsec, lowExc, fn, sub, iter, ret,
                 tsVars, clicked, gateVars, dayVars>>

\* WebDriverWait(...).until(presence of CLUB_CREDITS_ACTIVE_XPATH)
BcActive ==
  /\ mainpc = "call" /\ bc = "active"
  /\ \/ /\ bc' = NextStep(bc, "None")
        /\ UNCHANGED <<bcRet, failStage, exc>>
     \/ BcFault("Timeout")
  /\ UNCHANGED <<mainVars, r1, r2, unavail, nsec, mismatch, lowExc, fn, sub,
                 iter, ret, tsVars, clicked, gateVars, dayVars>>


(***************************************************************************)
(* main.                                                                   *)
(***************************************************************************)
\* Display(...).start() and webdriver.Chrome(...): any exception is logged
\* and main returns before a driver exists.
MainStart ==
  /\ mainpc = "start"
  /\ \/ mainpc' = "login"
     \/ mainpc' = "nostart"
  /\ UNCHANGED <<attempt, covered, callNo, totalCalls, firstOk, outcomes,
                 loggedIn, quitCount, mainExc, bcVars, fnVars, tsVars,
                 clicked, gateVars, dayVars>>

\* Mutant: the quit is the last statement of the try body, not a finally.
RaiseTarget_NoFinally == "exit"

\* Where an exception raised in the body of main's second try statement
\* goes: the finally clause.
RaiseTarget == "finally"

\* os.environ[...] twice, login_to_coursite, covered = False
MainLogin ==
  /\ mainpc = "login"
  /\ \/ /\ loggedIn' = TRUE
        /\ covered' = FALSE
        /\ mainpc' = "for"
        /\ UNCHANGED mainExc
     \/ /\ \E e \in {"KeyError", "Timeout", "NoSuchElement"} : mainExc' = e
        /\ mainpc' = RaiseTarget
        /\ UNCHANGED <<loggedIn, covered>>
  /\ UNCHANGED <<attempt, callNo, totalCalls, firstOk, outcomes, quitCount,
                 bcVars, fnVars, tsVars, clicked, gateVars, dayVars>>

\* for _ in range(3): booking_successful = book_court(driver, covered)
MainFor ==
  /\ mainpc = "for"
  /\ IF attempt < Attempts
     THEN /\ attempt' = attempt + 1
          /\ callNo' = 1
          /\ totalCalls' = totalCalls + 1
          /\ firstOk' = "unset"
          /\ mainpc' = "call"
          /\ bcEnter
     ELSE /\ mainpc' = "finally"
          /\ UNCHANGED <<attempt, callNo, totalCalls, firstOk, bcVars,
                         clicked, day_number>>
  /\ UNCHANGED <<covered, outcomes, loggedIn, quitCount, mainExc, fnVars,
                 tsVars, gateVars, today>>

\* The condition of the if statement after the first call.
RetryWithFallback(cov, ok) == cov /\ ~Truthy(ok)

\* book_court returned.  After the first call of the iteration the if
\* statement may clear `covered` and call book_court again; otherwise the
\* result is logged and the loop goes on.
MainAfterCall ==
  /\ mainpc = "call" /\ bc = "ret"
  /\ IF callNo = 1 /\ RetryWithFallback(covered, bcRet)
     THEN /\ covered' = FALSE
          /\ firstOk' = bcRet
          /\ callNo' = callNo + 1
          /\ totalCalls' = totalCalls + 1
          /\ bcEnter
          /\ UNCHANGED <<mainpc, outcomes>>
     ELSE /\ outcomes' = Append(outcomes, bcRet)
          /\ firstOk' = IF callNo = 1 THEN bcRet ELSE firstOk
          /\ mainpc' = "for"
          /\ bcLeave
          /\ UNCHANGED <<covered, callNo, totalCalls>>
  /\ UNCHANGED <<attempt, loggedIn, quitCount, mainExc, fnVars, tsVars,
                 gateVars, today>>

\* book_court raised: nothing in main catches it, the finally clause runs.
MainRaise ==
  /\ mainpc = "call" /\ bc = "raise"
  /\ mainExc' = exc
  /\ mainpc' = RaiseTarget
  /\ UNCHANGED <<attempt, covered, callNo, totalCalls, firstOk, outcomes,
                 loggedIn, quitCount, bcVars, fnVars, tsVars, clicked,
                 gateVars, dayVars>>

\* finally: logger.info('Completed bookings.'); driver.quit()
MainFinally ==
  /\ mainpc = "finally"
  /\ quitCount' = quitCount + 1
  /\ mainpc' = "exit"
  /\ UNCHANGED <<attempt, covered, callNo, totalCalls, firstOk, outcomes,
                 loggedIn, mainExc, bcVars, fnVars, tsVars, clicked,
                 gateVars, dayVars>>

InitCommon ==
  /\ attempt = 0 /\ covered = FALSE /\ callNo = 0 /\ totalCalls = 0
  /\ firstOk = "unset" /\ outcomes = << >> /\ loggedIn = FALSE
  /\ quitCount = 0 /\ mainExc = "none"
  /\ bcRet = "unset" /\ failStage = "none"
  /\ fn = "none" /\ sub = "idle" /\ iter = 0 /\ ret = "unset" /\ exc = "none"
  /\ cls = NoClass /\ tsFirst = NoClass /\ tsClicks = 0
  /\ r1 = "unset" /\ r2 = "unset" /\ unavail = {} /\ nsec = 0
  /\ mismatch = FALSE /\ clicked = {} /\ lowExc = "none"
  /\ gateCall = 0 /\ gateSel = FALSE /\ gateClicks = 0
  /\ day_number = << >>

Init ==
  /\ InitCommon
  /\ mainpc = "start" /\ bc = "none" /\ surf = NoClass
  /\ today = <<FALSE, 1, 1>>

Helpers == CbWait \/ CbRead \/ CbClick
           \/ TsWait \/ TsRead \/ TsClick \/ TsWait2 \/ TsRead2

Next ==
  \/ MainStart \/ MainLogin \/ MainFor \/ MainAfterCall \/ MainRaise
  \/ MainFinally
  \/ BcGet \/ BcCall \/ BcReturn \/ BcExcept \/ BcSlotCheck \/ BcFind
  \/ BcChk \/ BcActive
  \/ Helpers

Spec == Init /\ [][Next]_vars


(***************************************************************************)
(* Slot harness: click_time_selection called GateCalls times in a row on   *)
(* one slot element whose class changes only when it is clicked.           *)
(***************************************************************************)
GateCall ==
  /\ mainpc = "gate" /\ fn = "none" /\ gateCall < GateCalls
  /\ gateCall' = gateCall + 1
  /\ fn' = "ts" /\ sub' = "wait" /\ iter' = 1 /\ ret' = "unset"
  /\ cls' = NoClass /\ tsFirst' = NoClass /\ tsClicks' = 0
  /\ UNCHANGED <<mainVars, bcVars, exc, surf, clicked, gateSel, gateClicks,
                 dayVars>>

GateReturn ==
  /\ mainpc = "gate" /\ fn = "ts" /\ sub = "ret"
  /\ r1' = ret
  /\ gateSel' = IF gateCall = 1
                THEN tsFirst # NoClass /\ Classify(tsFirst) = "AlreadySelected"
                ELSE gateSel
  /\ fn' = "none" /\ sub' = "idle" /\ iter' = 0
  /\ UNCHANGED <<mainVars, bc, bcRet, failStage, r2, unavail, nsec, mismatch,
                 lowExc, ret, exc, tsVars, clicked, gateCall, gateClicks,
                 dayVars>>

GateExcept ==
  /\ mainpc = "gate" /\ fn = "ts" /\ sub = "raise"
  /\ mainpc' = "gateRaised"
  /\ mainExc' = exc
  /\ UNCHANGED <<attempt, covered, callNo, totalCalls, firstOk, outcomes,
                 loggedIn, quitCount, bcVars, fnVars, tsVars, clicked,
                 gateVars, dayVars>>

InitGate ==
  /\ InitCommon
  /\ mainpc = "gate" /\ bc = "slot1" /\ surf \in ClassValues
  /\ today = <<FALSE, 1, 1>>

NextGate ==
  \/ GateCall \/ GateReturn \/ GateExcept
  \/ TsWait \/ TsRead \/ TsClick \/ TsWait2 \/ TsRead2

SpecGate == InitGate /\ [][NextGate]_vars

(***************************************************************************)
(* Date harness: the day_number computation of book_court for every date.  *)
(***************************************************************************)
DayCompute ==
  /\ mainpc = "day"
  /\ day_number' = DayNumber(BookingDay(today))
  /\ mainpc' = "dayDone"
  /\ UNCHANGED <<attempt, covered, callNo, totalCalls, firstOk, outcomes,
                 loggedIn, quitCount, mainExc, bcVars, fnVars, tsVars,
                 clicked, gateVars, today>>

InitDay ==
  /\ InitCommon
  /\ mainpc = "day" /\ bc = "none" /\ surf = NoClass
  /\ today \in Dates

NextDay == DayCompute

SpecDay == InitDay /\ [][NextDay]_vars


(***************************************************************************)
(* Claims.                                                                 *)
(***************************************************************************)
WizardSteps == {"next1", "next2", "credits", "book"}

\* C1 (as claimed): when click_button_by_xpath runs out of tries without a
\* click having been dispatched, the value it returns differs from the value
\* it returns after a click.
C1_FailureDistinguishable ==
  (fn = "cb" /\ sub = "ret" /\ bc \notin clicked) => ret # CbReturnAfterBreak

\* C2: a click_time_selection call whose classification read, made before
\* any click of the call, shows the token 'red' returns False and has
\* dispatched no click; and no click is dispatched on a class last read as
\* Unavailable.
C2_UnavailableNeverClicked ==
  /\ (fn = "ts" /\ sub = "ret" /\ "red" \in Split(tsFirst))
       => (ret = "False" /\ tsClicks = 0 /\ bc \notin clicked)
  /\ (fn = "ts" /\ sub = "click") => "red" \notin Split(cls)

C2_Witness ==
  /\ mainpc = "call" /\ fn = "ts" /\ sub = "ret"
  /\ "red" \in Split(tsFirst) /\ ret = "False" /\ tsClicks = 0

\* C3: when both slot calls returned through the Unavailable branch,
\* book_court returns False and no Next, payment-method or Book click is
\* dispatched in that call.
C3_BothUnavailableAborts ==
  unavail = TsSteps =>
    /\ bc \in {"slot2", "slotcheck", "ret"}
    /\ clicked \cap WizardSteps = {}
    /\ bc = "ret" => bcRet = "False"

C3_Witness ==
  /\ unavail = TsSteps /\ bc = "ret" /\ bcRet = "False"
  /\ failStage = "slotcheck"

\* C4 (as claimed): an iteration of main's loop whose first book_court call
\* returned False has made a second call before its result is logged.
C4_FallbackRetried ==
  (mainpc = "for" /\ attempt >= 1 /\ firstOk = "False") => callNo = 2

\* C5 (as claimed): a run that got past the login ends with one logged
\* outcome for each of the 3 attempts, whichever of the listed faults
\* occurred.
C5_AllAttemptsRun ==
  ( /\ mainpc = "exit" /\ loggedIn
    /\ mainExc \in {"none", "Timeout", "Stale", "Intercepted", "IndexError"} )
  => Len(outcomes) = 3

\* C6: at most 2 book_court calls per iteration, at most 3 iterations and
\* at most 6 calls in a run.
C6_RunBounds ==
  /\ callNo <= 2
  /\ attempt <= 3
  /\ totalCalls <= 6
  /\ Len(outcomes) <= attempt

C6_Witness ==
  mainpc = "exit" /\ attempt = 3 /\ totalCalls = 3 /\ Len(outcomes) = 3

\* C7 (as claimed): no timeout, stale-handle or intercepted-click exception
\* leaves click_button_by_xpath or click_time_selection.
C7_HelpersNeverRaise ==
  ~( /\ fn \in {"cb", "ts"} /\ sub = "raise"
     /\ exc \in {"Timeout", "Stale", "Intercepted"} )

C9_SelectedIdempotent ==
  LET sel == IF gateCall = 1
             THEN "primary" \in Split(tsFirst) /\ "red" \notin Split(tsFirst)
             ELSE gateSel
  IN  (mainpc = "gate" /\ fn = "ts" /\ sub = "ret" /\ sel /\ tsFirst # NoClass)
        => /\ ret = "True"
           /\ tsClicks = 0 /\ gateClicks = 0
           /\ "primary" \in Split(tsFirst) /\ "red" \notin Split(tsFirst)

C9_Witness ==
  /\ mainpc = "gate" /\ fn = "ts" /\ sub = "ret" /\ gateCall = 2
  /\ gateSel /\ r1 = "True" /\ ret = "True" /\ gateClicks = 0

DigitValue(ch) == CHOOSE k \in 0..9 : DigitChar(k) = ch

\* C10: the day string has two characters, starts with "0" below 10 and
\* reads back as the day of month.
C10_DayNumberTwoDigits ==
  mainpc = "dayDone" =>
    LET d == BookingDay(today)
    IN  /\ d \in 1..31
        /\ Len(day_number) = 2
        /\ d < 10 => day_number[1] = "0"
        /\ 10 * DigitValue(day_number[1]) + DigitValue(day_number[2]) = d

C10_Witness ==
  /\ mainpc = "dayDone" /\ BookingDay(today) = 5
  /\ day_number = <<"0", "5">>

\* C11: on the happy path (the day, category, first-slot, both Next,
\* payment-method and Book clicks dispatched, the first slot confirmed, no
\* wizard-section mismatch) book_court ends by returning True, and it never
\* raises or gives up once the Book click is dispatched.
HappyClicks == {"day", "type", "slot1", "next1", "next2", "credits", "book"}

C11_HappyPathReturnsTrue ==
  (HappyClicks \subseteq clicked /\ Truthy(r1) /\ ~mismatch)
    => /\ bc \in {"book", "ret"}
       /\ failStage = "none" /\ lowExc = "none"
       /\ bc = "ret" => bcRet = "True"

C11_Witness ==
  /\ HappyClicks \subseteq clicked /\ Truthy(r1) /\ ~mismatch
  /\ bc = "ret" /\ bcRet = "True" /\ nsec >= 3

C13_SecondTriedAfterFirstFails ==
  LET firstFailed == r1 = "False"
                     \/ (failStage = "slot1" /\ lowExc = "Timeout")
      secondTried == r2 # "unset" \/ failStage = "slot2"
  IN  (bc \in {"ret", "raise"} /\ firstFailed) => secondTried

\* C14: a failed 'Wrong div active' check never ends the attempt: after a
\* mismatch book_court returns only with True or because a later click or
\* the payment wait raised, and a check statement gives up only by raising
\* (a missing or stale section element).
ChkSteps == {"chk0", "chk1", "chk2"}

C14_MismatchIsSoft ==
  /\ (mismatch /\ bc = "ret")
       => (bcRet = "True" \/ failStage \in CbSteps \cup {"active"})
  /\ failStage \in ChkSteps
       => (bc = "raise" /\ exc \in {"IndexError", "Stale"})

C14_Witness ==
  mismatch /\ bc = "ret" /\ bcRet = "True" /\ "book" \in clicked

\* C15: when the wait for the payment method's active marker times out,
\* book_court returns False and no click on the Book control is dispatched.
C15_PaymentTimeoutAborts ==
  failStage = "active"
    => (bc = "ret" /\ bcRet = "False" /\ "book" \notin clicked)

C15_Witness ==
  /\ failStage = "active" /\ bc = "ret" /\ bcRet = "False"
  /\ "credits" \in clicked

\* C16 (as claimed): when the click on the day button is not dispatched
\* (not found within the wait, or the click failed), book_court gives up at
\* that statement and dispatches no other click.
C16_DateFailureAborts ==
  (mainpc = "call" /\ "day" \notin clicked)
    => (bc \in {"get", "day", "ret", "raise"} /\ clicked = {})

\* C18 (as claimed): book_court returns True only when the day, category,
\* both Next and the Book clicks were dispatched in that call.
C18_TrueOnlyAfterAllClicks ==
  (bc = "ret" /\ bcRet = "True")
    => {"day", "type", "next1", "next2", "book"} \subseteq clicked

\* C19 (as claimed): one call of click_time_selection dispatches at most one
\* click on the slot element.
C19_AtMostOneClick == tsClicks <= 1

\* C17: every step taken inside a book_court call moves it forward in a
\* bounded order of positions (statement of book_court, iteration of the
\* helper, operation of the iteration), no helper makes more than 2
\* iterations, and so every call returns or raises after a bounded number
\* of surface operations.
StepIndex(s) ==
  CASE s = "get" -> 0      [] s = "day" -> 1        [] s = "type" -> 2
    [] s = "slot1" -> 3    [] s = "slot2" -> 4      [] s = "slotcheck" -> 5
    [] s = "find" -> 6     [] s = "chk0" -> 7       [] s = "next1" -> 8
    [] s = "chk1" -> 9     [] s = "next2" -> 10     [] s = "chk2" -> 11
    [] s = "credits" -> 12 [] s = "active" -> 13    [] s = "book" -> 14
    [] OTHER -> 15

OpIndex(p) ==
  CASE p = "wait" -> 1 [] p = "read" -> 2 [] p = "click" -> 3
    [] p = "wait2" -> 4 [] p = "read2" -> 5

HelperProgress ==
  IF fn = "none" THEN 0
  ELSE IF sub \in {"ret", "raise"} THEN 11
  ELSE (iter - 1) * 5 + OpIndex(sub)

Progress == StepIndex(bc) * 12 + HelperProgress

C17_EveryCallTerminates ==
  /\ [](fn # "none" => iter \in 1..2)
  /\ [](Progress \in 0..191)
  /\ [][ (mainpc = "call" /\ mainpc' = "call" /\ totalCalls' = totalCalls)
           => Progress' > Progress ]_vars

C17_Witness ==
  /\ mainpc = "call" /\ fn = "ts" /\ sub = "ret" /\ iter = 2
  /\ tsClicks = 2

\* C20: once the driver has started, every path goes on until driver.quit
\* has been called, it is called exactly once (also when the login or a
\* booking attempt raised), and nothing runs after it.
C20_QuitExactlyOnce ==
  /\ quitCount <= 1
  /\ mainpc = "exit" => quitCount = 1
  /\ quitCount = 1 => (mainpc = "exit" /\ fn = "none" /\ ~ENABLED Next)
  /\ mainpc \in {"login", "for", "call", "finally"} => ENABLED Next
  /\ mainpc \in {"start", "nostart"} => quitCount = 0

C20_Witness ==
  /\ mainpc = "exit" /\ quitCount = 1 /\ loggedIn
  /\ mainExc = "Intercepted" /\ Len(outcomes) = 1

====
